---- MODULE Spec2Model ----
(***************************************************************************)
(* Model of the ddev-mcp server: the SQL query security classifier of      *)
(* database-service.ts (isReadOnlyQuery, validateQuerySecurity, dbQuery),  *)
(* the tool handlers of tools/*.ts, execDDEVCommand of ddev-command.ts and *)
(* the ListTools / CallTool handlers of ddev-mcp-server.ts.                *)
(*                                                                         *)
(* Query texts are TLA+ strings; the JavaScript string and RegExp          *)
(* operations the classifier uses are modelled character by character.     *)
(***************************************************************************)
EXTENDS Integers, Sequences, FiniteSets, TLC

(***************************************************************************)
(* JavaScript string primitives                                            *)
(***************************************************************************)

\* The character at 1-based position i of s ("" outside the string).
CharAt(s, i) == IF i >= 1 /\ i <= Len(s) THEN SubSeq(s, i, i) ELSE ""

\* s.startsWith(lit, i - 1): lit occurs in s at 1-based position i.
StartsAt(s, lit, i) ==
    /\ i >= 1
    /\ i + Len(lit) - 1 <= Len(s)
    /\ SubSeq(s, i, i + Len(lit) - 1) = lit

\* s.includes(sub)
Includes(s, sub) == \E i \in 1..(Len(s) + 1) : StartsAt(s, sub, i)

\* RegExp \s restricted to the whitespace of the model's alphabet.
WhiteSpace == {" ", "\t", "\n", "\r"}

\* Line terminators: the characters RegExp . does not match.
LineTerminator == {"\n", "\r"}

UpperLetters ==
    {"A", "B", "C", "D", "E", "F", "G", "H", "I", "J", "K", "L", "M",
     "N", "O", "P", "Q", "R", "S", "T", "U", "V", "W", "X", "Y", "Z"}

\* String.prototype.toUpperCase on one character.
UpperOf ==
    ("a" :> "A") @@ ("b" :> "B") @@ ("c" :> "C") @@ ("d" :> "D") @@
    ("e" :> "E") @@ ("f" :> "F") @@ ("g" :> "G") @@ ("h" :> "H") @@
    ("i" :> "I") @@ ("j" :> "J") @@ ("k" :> "K") @@ ("l" :> "L") @@
    ("m" :> "M") @@ ("n" :> "N") @@ ("o" :> "O") @@ ("p" :> "P") @@
    ("q" :> "Q") @@ ("r" :> "R") @@ ("s" :> "S") @@ ("t" :> "T") @@
    ("u" :> "U") @@ ("v" :> "V") @@ ("w" :> "W") @@ ("x" :> "X") @@
    ("y" :> "Y") @@ ("z" :> "Z")

LowerLetters == DOMAIN UpperOf

Digits == {"0", "1", "2", "3", "4", "5", "6", "7", "8", "9"}

\* RegExp \w
WordChar == UpperLetters \cup LowerLetters \cup Digits \cup {"_"}

\* The concatenation of the strings f[lo], ..., f[hi].
RECURSIVE ConcatChars(_, _, _)
ConcatChars(f, lo, hi) ==
    IF lo > hi THEN ""
    ELSE IF lo = hi THEN f[lo]
    ELSE ConcatChars(f, lo, (lo + hi) \div 2)
             \o ConcatChars(f, (lo + hi) \div 2 + 1, hi)

\* String.prototype.toUpperCase
toUpperCase(s) ==
    ConcatChars([i \in 1..Len(s) |->
                    IF SubSeq(s, i, i) \in LowerLetters
                    THEN UpperOf[SubSeq(s, i, i)] ELSE SubSeq(s, i, i)],
                1, Len(s))

RECURSIVE TrimStartPos(_, _)
TrimStartPos(s, i) ==
    IF i <= Len(s) /\ SubSeq(s, i, i) \in WhiteSpace
    THEN TrimStartPos(s, i + 1) ELSE i

RECURSIVE TrimEndPos(_, _)
TrimEndPos(s, j) ==
    IF j >= 1 /\ SubSeq(s, j, j) \in WhiteSpace
    THEN TrimEndPos(s, j - 1) ELSE j

\* s.substring(i - 1, j), empty when i > j.
Substring(s, i, j) == IF i > j THEN "" ELSE SubSeq(s, i, j)

\* String.prototype.trim
trim(s) == Substring(s, TrimStartPos(s, 1), TrimEndPos(s, Len(s)))

\* The least element of a set of positions, 0 for the empty set.
FirstOf(S) == IF S = {} THEN 0 ELSE CHOOSE j \in S : \A k \in S : j <= k

\* The first position >= i where lit occurs in s, 0 when there is none.
IndexOfFrom(s, lit, i) ==
    FirstOf({j \in i..(Len(s) - Len(lit) + 1) :
                 SubSeq(s, j, j + Len(lit) - 1) = lit})

\* The first position >= i holding a line terminator, Len(s)+1 if none.
EndOfLine(s, i) ==
    FirstOf({j \in i..(Len(s) + 1) :
                 j = Len(s) + 1 \/ SubSeq(s, j, j) \in LineTerminator})

\* s.replace(/\/\*[\s\S]*?\*\//g, " ") from position i on: the text up to
\* the next terminated comment, a space, and the rest after the comment.
RECURSIVE stripBlockComments(_, _)
stripBlockComments(s, i) ==
    LET open  == IndexOfFrom(s, "/*", i)
        close == IF open = 0 THEN 0 ELSE IndexOfFrom(s, "*/", open + 2)
    IN  IF close = 0 THEN Substring(s, i, Len(s))
        ELSE Substring(s, i, open - 1) \o " "
                 \o stripBlockComments(s, close + 2)

\* s.replace(/--.*$/gm, " ") from position i on.
RECURSIVE stripLineComments(_, _)
stripLineComments(s, i) ==
    LET dashes == IndexOfFrom(s, "--", i)
    IN  IF dashes = 0 THEN Substring(s, i, Len(s))
        ELSE Substring(s, i, dashes - 1) \o " "
                 \o stripLineComments(s, EndOfLine(s, dashes + 2))

\* s.replace(/\s+/g, " "): the first character of a whitespace run becomes
\* a space, the others disappear.
collapseWhitespace(s, i) ==
    ConcatChars([k \in 1..Len(s) |->
                    IF SubSeq(s, k, k) \notin WhiteSpace THEN SubSeq(s, k, k)
                    ELSE IF k > i /\ SubSeq(s, k - 1, k - 1) \in WhiteSpace
                    THEN "" ELSE " "],
                i, Len(s))

\* s.split(';').map(p => p.trim()).filter(p => p.length > 0)
RECURSIVE splitStatements(_, _)
splitStatements(s, i) ==
    LET j    == IndexOfFrom(s, ";", i)
        e    == IF j = 0 THEN Len(s) + 1 ELSE j
        part == trim(IF e > i THEN SubSeq(s, i, e - 1) ELSE "")
        rest == IF j = 0 THEN <<>> ELSE splitStatements(s, j + 1)
    IN  IF part = "" THEN rest ELSE <<part>> \o rest

(***************************************************************************)
(* RegExp.prototype.test for the constructs the patterns use.  A pattern   *)
(* is a sequence of atoms; matching carries the set of positions the       *)
(* pattern's prefix can end at, which decides test() exactly as            *)
(* backtracking does.                                                      *)
(***************************************************************************)
Lit(x)    == [t |-> "lit", s |-> x]           \* literal text
OneOf(xs) == [t |-> "oneof", s |-> xs]        \* (A|B|C) of literals
Alt(rs)   == [t |-> "alt", a |-> rs]          \* (r1|r2|...) of patterns
NotAhead(r) == [t |-> "notahead", a |-> <<r>>] \* (?!r)
Bol  == [t |-> "bol"]                         \* ^ (no m flag)
Eol  == [t |-> "eol"]                         \* $ (no m flag)
WB   == [t |-> "wb"]                          \* \b
WS1  == [t |-> "ws+"]                         \* \s+
WS0  == [t |-> "ws*"]                         \* \s*
Any0 == [t |-> "any*"]                        \* .* and .*?
Word1 == [t |-> "w+"]                         \* \w+

\* The positions up to which every character from i on belongs to cls.
RECURSIVE RunEnd(_, _, _)
RunEnd(s, i, cls) ==
    IF i <= Len(s) /\ SubSeq(s, i, i) \in cls THEN RunEnd(s, i + 1, cls)
    ELSE i

\* The position from which no line terminator occurs before i: .* can
\* extend from i to any position up to the next line terminator.
DotRunEnd(s, i) == EndOfLine(s, i)

RECURSIVE MatchAtom(_, _, _), MatchSeq(_, _, _, _)
\* The set of positions an atom can end at when it starts at position i.
MatchAtom(atom, s, i) ==
    CASE atom.t = "lit" ->
           IF StartsAt(s, atom.s, i) THEN {i + Len(atom.s)} ELSE {}
      [] atom.t = "oneof" ->
           {i + Len(x) : x \in {y \in atom.s : StartsAt(s, y, i)}}
      [] atom.t = "alt" ->
           UNION {MatchSeq(atom.a[n], 1, s, {i}) : n \in DOMAIN atom.a}
      [] atom.t = "notahead" ->
           IF MatchSeq(atom.a[1], 1, s, {i}) = {} THEN {i} ELSE {}
      [] atom.t = "bol" -> IF i = 1 THEN {i} ELSE {}
      [] atom.t = "eol" -> IF i = Len(s) + 1 THEN {i} ELSE {}
      [] atom.t = "wb" ->
           IF (CharAt(s, i - 1) \in WordChar) # (CharAt(s, i) \in WordChar)
           THEN {i} ELSE {}
      [] atom.t = "ws+" -> (i + 1)..RunEnd(s, i, WhiteSpace)
      [] atom.t = "ws*" -> i..RunEnd(s, i, WhiteSpace)
      [] atom.t = "any*" -> i..DotRunEnd(s, i)
      [] atom.t = "w+" -> (i + 1)..RunEnd(s, i, WordChar)

\* The positions atoms k.. of pattern re can end at, started from any
\* position of P.
MatchSeq(re, k, s, P) ==
    IF k > Len(re) \/ P = {} THEN P
    ELSE MatchSeq(re, k + 1, s, UNION {MatchAtom(re[k], s, p) : p \in P})

\* The positions right after an occurrence of lit in s.
EndsOfLiteral(s, lit) ==
    LET n == Len(lit)
    IN  {i + n : i \in {j \in 1..(Len(s) - n + 1) : SubSeq(s, j, j + n - 1) = lit}}

\* pattern.test(s): the pattern may start at any position of s; a leading ^
\* leaves position 1 only, a leading literal its occurrences.
test(re, s) ==
    IF re[1].t = "bol" THEN MatchSeq(re, 2, s, {1}) # {}
    ELSE IF re[1].t = "lit"
    THEN MatchSeq(re, 2, s, EndsOfLiteral(s, re[1].s)) # {}
    ELSE MatchSeq(re, 1, s, 1..(Len(s) + 1)) # {}

(***************************************************************************)
(* database-service.ts                                                     *)
(***************************************************************************)

\* normalizedQuery with the block comments left in the text.
normalizedQueryKeepingBlockComments(query) ==
    toUpperCase(trim(collapseWhitespace(stripLineComments(query, 1), 1)))

\* normalizedQuery without the conversion to upper case.
normalizedQueryKeepingCase(query) ==
    trim(collapseWhitespace(
        stripLineComments(stripBlockComments(query, 1), 1), 1))

\* normalizedQuery with the whitespace collapsed and trimmed before the
\* comments are replaced.
normalizedQueryCollapsingFirst(query) ==
    toUpperCase(stripLineComments(stripBlockComments(
        trim(collapseWhitespace(query, 1)), 1), 1))

\* normalizedQuery without the replacement of line comments.
normalizedQueryKeepingLineComments(query) ==
    toUpperCase(trim(collapseWhitespace(stripBlockComments(query, 1), 1)))

\* The normalizedQuery of isReadOnlyQuery.
normalizedQuery(query) ==
    toUpperCase(trim(collapseWhitespace(
        stripLineComments(stripBlockComments(query, 1), 1), 1)))

ShowTargets ==
    <<  <<Lit("TABLES")>>, <<Lit("DATABASES")>>, <<Lit("SCHEMAS")>>,
        <<Lit("COLUMNS")>>, <<Lit("INDEX")>>, <<Lit("INDEXES")>>,
        <<Lit("INDICES")>>, <<Lit("STATUS")>>, <<Lit("VARIABLES")>>,
        <<Lit("PROCESSLIST")>>, <<Lit("ENGINES")>>, <<Lit("CHARSET")>>,
        <<Lit("COLLATION")>>,
        <<Lit("CREATE"), WS1, Lit("TABLE")>>,
        <<Lit("CREATE"), WS1, Lit("DATABASE")>>,
        <<Lit("CREATE"), WS1, Lit("VIEW")>>,
        <<Lit("TABLE"), WS1, Lit("STATUS")>>,
        <<Lit("FULL"), WS1, Lit("TABLES")>>,
        <<Lit("GRANTS")>>, <<Lit("PRIVILEGES")>>  >>

CteDenyVocabulary ==
    {"INSERT", "UPDATE", "DELETE", "CREATE", "DROP", "ALTER", "TRUNCATE",
     "REPLACE", "MERGE", "GRANT", "REVOKE", "SET", "RESET", "CALL",
     "EXECUTE", "EXEC", "COPY", "VACUUM", "ANALYZE", "CLUSTER", "REINDEX",
     "LOAD", "IMPORT", "FLUSH", "OPTIMIZE", "REPAIR", "CHECKSUM", "BEGIN",
     "START", "COMMIT", "ROLLBACK", "SAVEPOINT", "RENAME", "COMMENT",
     "HANDLER", "LOCK", "UNLOCK"}

safeReadOnlyPatterns ==
    <<  <<Bol, Lit("SELECT"), WB>>,
        <<Bol, Lit("SHOW"), WS1, Alt(ShowTargets), WB>>,
        <<Bol, Lit("DESCRIBE"), WB>>,
        <<Bol, Lit("DESC"), WB>>,
        <<Bol, Lit("EXPLAIN"), WB>>,
        <<Bol, Lit("EXPLAIN"), WS1,
          OneOf({"ANALYZE", "VERBOSE", "FORMAT"}), WB>>,
        <<Bol, Lit("\\DT"), Eol>>,
        <<Bol, Lit("\\D"), WS1, Word1, Eol>>,
        <<Bol, Lit("\\L"), Eol>>,
        <<Bol, Lit("\\DN"), Eol>>,
        <<Bol, Lit("\\DF"), Eol>>,
        <<Bol, Lit("\\DV"), Eol>>,
        <<Bol, Lit("\\DI"), Eol>>,
        <<Bol, Lit("\\DU"), Eol>>,
        <<Bol, Lit("\\DP"), Eol>>,
        <<Bol, Lit("\\Z"), Eol>>,
        <<Bol, Lit("WITH"), WB, Any0, WB, Lit("SELECT"), WB,
          NotAhead(<<Any0, WB, OneOf(CteDenyVocabulary), WB>>)>>,
        <<Bol, Lit("SELECT"), WS1, Any0, WS1, Lit("FROM"), WS1,
          OneOf({"INFORMATION_SCHEMA", "PERFORMANCE_SCHEMA", "mysql."}),
          Word1>>,
        <<Bol, Lit("SELECT"), WS1, Any0, WS1, Lit("FROM"), WS1,
          OneOf({"pg_catalog", "information_schema"}), Lit("."), Word1>>,
        <<Bol, Lit("SELECT"), WS1, Any0, WS1, Lit("FROM"), WS1,
          Lit("pg_"), Word1>>  >>

\* isReadOnlyNormalized without counting the statements of the batch.
isReadOnlyIgnoringBatch(nq) ==
    IF nq = "" THEN TRUE
    ELSE \E n \in DOMAIN safeReadOnlyPatterns :
             test(safeReadOnlyPatterns[n], nq)

\* isReadOnlyNormalized with the patterns' leading ^ dropped.
isReadOnlyUnanchored(nq) ==
    IF nq = "" THEN TRUE
    ELSE IF Len(splitStatements(nq, 1)) > 1 THEN FALSE
    ELSE \E n \in DOMAIN safeReadOnlyPatterns :
             test(Tail(safeReadOnlyPatterns[n]), nq)

\* isReadOnlyNormalized rejecting one statement as it rejects two.
isReadOnlySingleRejected(nq) ==
    IF nq = "" THEN TRUE
    ELSE IF Len(splitStatements(nq, 1)) > 0 THEN FALSE
    ELSE \E n \in DOMAIN safeReadOnlyPatterns :
             test(safeReadOnlyPatterns[n], nq)

\* isReadOnlyNormalized without the early return for the empty statement.
isReadOnlyEmptyUnhandled(nq) ==
    IF Len(splitStatements(nq, 1)) > 1 THEN FALSE
    ELSE \E n \in DOMAIN safeReadOnlyPatterns :
             test(safeReadOnlyPatterns[n], nq)

\* isReadOnlyQuery from its normalizedQuery on.
isReadOnlyNormalized(nq) ==
    IF nq = "" THEN TRUE
    ELSE IF Len(splitStatements(nq, 1)) > 1 THEN FALSE
    ELSE \E n \in DOMAIN safeReadOnlyPatterns :
             test(safeReadOnlyPatterns[n], nq)

isReadOnlyQuery(query) ==
    \A nq \in {normalizedQuery(query)} : isReadOnlyNormalized(nq)

GrantPrivileges ==
    <<  <<Lit("ALL"), WS1, Lit("PRIVILEGES")>>,
        <<OneOf({"CREATE", "DROP", "ALTER", "DELETE", "INSERT", "UPDATE",
                 "SELECT", "SUPER", "RELOAD", "REPLICATION", "BINLOG",
                 "PROCESS", "FILE", "REFERENCES", "INDEX", "SHUTDOWN",
                 "EXECUTE", "EVENT", "TRIGGER"})>>,
        <<Lit("LOCK"), WS1, Lit("TABLES")>>,
        <<Lit("CREATE"), WS1, Lit("USER")>>,
        <<Lit("CREATE"), WS1, Lit("TEMPORARY"), WS1, Lit("TABLES")>>,
        <<Lit("REPLICATION"), WS1, OneOf({"SLAVE", "CLIENT"})>>,
        <<Lit("CREATE"), WS1, Lit("VIEW")>>,
        <<Lit("SHOW"), WS1, Lit("VIEW")>>,
        <<Lit("CREATE"), WS1, Lit("ROUTINE")>>,
        <<Lit("ALTER"), WS1, Lit("ROUTINE")>>  >>

catastrophicPatterns ==
    <<  <<Lit("DROP"), WS1, OneOf({"DATABASE", "SCHEMA", "TABLESPACE"}), WB>>,
        <<Lit("SHUTDOWN"), WB>>,
        <<Lit("KILL"), WB>>,
        <<Lit("LOAD_FILE"), WB>>,
        <<Lit("INTO"), WS1, OneOf({"OUTFILE", "DUMPFILE"}), WB>>,
        <<Lit("/*!"), Any0, Lit("*/")>>,
        <<Lit("\\!"), WS0>>,
        <<Lit("COPY"), WS1, Any0, Lit("FROM"), WS1, Lit("PROGRAM"), WB>>,
        <<Lit("SELECT"), WS1, Any0, Lit("INTO"), WS1,
          OneOf({"OUTFILE", "DUMPFILE"}), WB>>,
        <<Lit("LOAD"), WS1, Lit("DATA"), WS1, Lit("LOCAL"), WS1,
          Lit("INFILE"), WB>>,
        <<Lit("GRANT"), WS1, Alt(GrantPrivileges)>>,
        <<Lit("CREATE"), WS1, Lit("USER"), WB>>,
        <<Lit("SET"), WS1, OneOf({"GLOBAL", "SESSION", "@@"})>>,
        <<Bol, WS0, Lit("UNION"), WS1, Lit("SELECT"), WB>>,
        <<Lit("SELECT"), WS1, Lit("@@DATADIR")>>,
        <<Lit("SELECT"), WS1, Lit("@@BASEDIR")>>,
        <<Lit("SELECT"), WS1, Lit("@@TMPDIR")>>,
        <<Lit("SELECT"), WS1, Lit("@@SECURE_FILE_PRIV")>>,
        <<Lit("SELECT"), WS1, Lit("@@PLUGIN_DIR")>>,
        <<Lit("SHOW"), WS1, Lit("GRANTS"), WB>>  >>

\* A catastrophic reason that does not say "catastrophic".
CatastrophicReasonUnnamed ==
    "This operation is permanently blocked as it could damage the system or expose sensitive data."

CatastrophicReason ==
    "This operation is permanently blocked as it could be catastrophic to the system or expose sensitive data."

WhitelistReason ==
    "Query not in whitelist of safe read-only operations. Only SELECT, SHOW, DESCRIBE, EXPLAIN, and database introspection commands are allowed. Use --allow-write to enable write operations."

\* catastrophicPatterns.some(pattern => pattern.test(text))
matchesCatastrophic(text) ==
    \E s \in {text} :
        \E n \in DOMAIN catastrophicPatterns : test(catastrophicPatterns[n], s)

\* validateQuerySecurity with the write-mode decision taken before the
\* catastrophic patterns are consulted.
validateQuerySecurityWriteModeFirst(query, allowWriteOperations) ==
    IF allowWriteOperations THEN [allowed |-> TRUE]
    ELSE IF matchesCatastrophic(toUpperCase(trim(query)))
    THEN [allowed |-> FALSE, reason |-> CatastrophicReason]
    ELSE IF ~isReadOnlyQuery(query)
    THEN [allowed |-> FALSE, reason |-> WhitelistReason]
    ELSE [allowed |-> TRUE]

\* validateQuerySecurity applying the whitelist in write mode too.
validateQuerySecurityWhitelistAlways(query, allowWriteOperations) ==
    IF matchesCatastrophic(toUpperCase(trim(query)))
    THEN [allowed |-> FALSE, reason |-> CatastrophicReason]
    ELSE IF ~isReadOnlyQuery(query)
    THEN [allowed |-> FALSE, reason |-> WhitelistReason]
    ELSE [allowed |-> TRUE]

\* validateQuerySecurity giving the whitelist reason for every denial.
validateQuerySecurityOneReason(query, allowWriteOperations) ==
    IF matchesCatastrophic(toUpperCase(trim(query)))
    THEN [allowed |-> FALSE, reason |-> WhitelistReason]
    ELSE IF ~allowWriteOperations /\ ~isReadOnlyQuery(query)
    THEN [allowed |-> FALSE, reason |-> WhitelistReason]
    ELSE [allowed |-> TRUE]

\* validateQuerySecurity rejecting a stacked submission before it consults
\* the catastrophic patterns.
validateQuerySecurityStackedFirst(query, allowWriteOperations) ==
    IF /\ ~allowWriteOperations
       /\ Len(splitStatements(normalizedQuery(query), 1)) >= 2
    THEN [allowed |-> FALSE, reason |-> WhitelistReason]
    ELSE IF matchesCatastrophic(toUpperCase(trim(query)))
    THEN [allowed |-> FALSE, reason |-> CatastrophicReason]
    ELSE IF ~allowWriteOperations /\ ~isReadOnlyQuery(query)
    THEN [allowed |-> FALSE, reason |-> WhitelistReason]
    ELSE [allowed |-> TRUE]

\* validateQuerySecurity consulting the whitelist before the catastrophic
\* patterns when allowWriteOperations is false.
validateQuerySecurityWhitelistFirst(query, allowWriteOperations) ==
    IF ~allowWriteOperations /\ isReadOnlyQuery(query)
    THEN [allowed |-> TRUE]
    ELSE IF matchesCatastrophic(toUpperCase(trim(query)))
    THEN [allowed |-> FALSE, reason |-> CatastrophicReason]
    ELSE IF ~allowWriteOperations
    THEN [allowed |-> FALSE, reason |-> WhitelistReason]
    ELSE [allowed |-> TRUE]

\* validateQuerySecurity applying the whitelist when allowWriteOperations is
\* true instead of when it is false.
validateQuerySecurityFlagInverted(query, allowWriteOperations) ==
    IF matchesCatastrophic(toUpperCase(trim(query)))
    THEN [allowed |-> FALSE, reason |-> CatastrophicReason]
    ELSE IF allowWriteOperations /\ ~isReadOnlyQuery(query)
    THEN [allowed |-> FALSE, reason |-> WhitelistReason]
    ELSE [allowed |-> TRUE]

validateQuerySecurity(query, allowWriteOperations) ==
    IF matchesCatastrophic(toUpperCase(trim(query)))
    THEN [allowed |-> FALSE, reason |-> CatastrophicReason]
    ELSE IF ~allowWriteOperations /\ ~isReadOnlyQuery(query)
    THEN [allowed |-> FALSE, reason |-> WhitelistReason]
    ELSE [allowed |-> TRUE]

\* The element of a one-element set: Only({e(x) : x \in {v}}) is e(v) with
\* v computed once.
Only(S) == CHOOSE x \in S : TRUE

\* An argument that is null or undefined at run time; an argument that is
\* a string s is {s}.
Null == {}

\* validateQuerySecurityCall throwing for the empty string as for null.
validateQuerySecurityCallRejectingEmpty(argument, allowWriteOperations) ==
    IF argument = Null \/ argument = {""} THEN [threw |-> "TypeError"]
    ELSE Only({validateQuerySecurity(query, allowWriteOperations) :
               query \in argument})

\* A call of validateQuerySecurity with an argument that may be null:
\* query.trim() throws a TypeError when query is null or undefined.
validateQuerySecurityCall(argument, allowWriteOperations) ==
    IF argument = Null THEN [threw |-> "TypeError"]
    ELSE Only({validateQuerySecurity(query, allowWriteOperations) :
               query \in argument})

(***************************************************************************)
(* ddev-command.ts and project-service.ts.  What the ddev processes        *)
(* answer is the environment's choice: env.describe is the outcome of      *)
(* `ddev describe --json-output` as getProjectStatus sees it (a database   *)
(* type, or "fail"), env.pathOk whether getProjectPath finds the project   *)
(* root, env.execOk whether the command proper succeeds.                   *)
(***************************************************************************)

\* One entry of the record of the functions a call has invoked.
Invoked(fn, arg, project, ok) ==
    [fn |-> fn, arg |-> arg, project |-> project, ok |-> ok]

\* command.split(' ')[0]
commandBase(command) ==
    LET j == IndexOfFrom(command, " ", 1)
    IN  IF j = 0 THEN command ELSE SubSeq(command, 1, j - 1)

commandsWithProjectArg ==
    {"describe", "list", "start", "stop", "restart", "delete"}

\* The approot getProjectPath reads from the describe output.
ProjectRoot(projectName) == "/projects/" \o projectName

\* The text of a successful command and the stderr of a failed one.
CommandOutput == "command output"
CommandStderr == "stderr of the failed command"

\* execDDEVCommand(command, projectName) with execOk deciding execSync:
\* [ok, text, trace], text being the output or the DdevCommandError message.
execDDEVCommand(command, projectName, pathOk, execOk) ==
    LET entry(ok) == Invoked("execDDEVCommand", command, projectName, ok)
        failed    == "DDEV command failed: " \o CommandStderr
    IN  IF projectName # "" /\ commandBase(command) \in commandsWithProjectArg
        THEN LET full == "ddev " \o command \o " " \o projectName
             IN  [ok    |-> execOk,
                  text  |-> IF execOk THEN CommandOutput ELSE failed,
                  trace |-> <<entry(execOk), Invoked("execSync", full, "", execOk)>>]
        ELSE IF projectName # "" /\ commandBase(command) = "exec"
        THEN IF ~pathOk
             THEN [ok    |-> FALSE,
                   text  |-> "DDEV command failed: Project " \o projectName
                                 \o " not found or not accessible",
                   trace |-> <<entry(FALSE)>>]
             ELSE [ok    |-> execOk,
                   text  |-> IF execOk THEN CommandOutput ELSE failed,
                   trace |-> <<entry(execOk),
                               Invoked("execSync", "ddev " \o command,
                                       ProjectRoot(projectName), execOk)>>]
        ELSE [ok    |-> execOk,
              text  |-> IF execOk THEN CommandOutput ELSE failed,
              trace |-> <<entry(execOk),
                          Invoked("execSync", "ddev " \o command, "", execOk)>>]

\* What `ddev describe --json-output` can answer to getProjectStatus.
DescribeOutcomes == {"postgres", "mariadb", "fail"}

\* getProjectStatus(projectName): [found, type, trace]; a failed describe
\* is caught and gives null.
getProjectStatus(projectName, describe) ==
    Only({[found |-> run.ok,
           type  |-> IF run.ok THEN describe ELSE "",
           trace |-> <<Invoked("getProjectStatus", "", projectName, run.ok)>>
                         \o run.trace] :
          run \in {execDDEVCommand("describe --json-output", projectName,
                                   TRUE, describe # "fail")}})

\* listProjects(): a failed `ddev list` is caught and gives [].
listProjects(execOk) ==
    Only({[projects |-> IF run.ok THEN 2 ELSE 0,
           trace    |-> <<Invoked("listProjects", "", "", run.ok)>> \o run.trace] :
          run \in {execDDEVCommand("list --json-output", "", TRUE, execOk)}})

\* getDatabaseType(projectName): project?.database?.type?.toLowerCase() || "mysql"
getDatabaseType(projectName, describe) ==
    Only({[type  |-> IF project.found THEN project.type ELSE "mysql",
           trace |-> <<Invoked("getDatabaseType", "", projectName, TRUE)>>
                         \o project.trace] :
          project \in {getProjectStatus(projectName, describe)}})

getDbCommands(dbType) ==
    IF dbType = "postgres"
    THEN [client |-> "psql", commandFlag |-> "-c"]
    ELSE [client |-> "mysql", commandFlag |-> "-e"]

\* query.replace(/"/g, '\\"')
escapeQuotes(s, i) ==
    ConcatChars([k \in 1..Len(s) |->
                    IF SubSeq(s, k, k) = "\"" THEN "\\\"" ELSE SubSeq(s, k, k)],
                i, Len(s))

\* The command dbQuery builds for execDDEVCommand.
dbQueryCommand(query, database, dbType) ==
    "exec " \o getDbCommands(dbType).client
        \o (IF database # ""
            THEN (IF dbType = "postgres" THEN " -d " ELSE " -D ") \o database
            ELSE "")
        \o " " \o getDbCommands(dbType).commandFlag
        \o " \"" \o escapeQuotes(query, 1) \o "\""

\* dbQuery after a security check that allowed the query.
dbQueryExecute(query, allowWriteOperations, database, projectName, env, checked) ==
    Only({Only({IF run.ok
                THEN [kind  |-> "return", error |-> "",
                      text  |-> "Query executed successfully (" \o db.type
                                    \o ") ["
                                    \o (IF allowWriteOperations
                                        THEN "Write Mode" ELSE "Read-Only Mode")
                                    \o "]:\n\n" \o run.text,
                      trace |-> checked \o db.trace \o run.trace]
                ELSE [kind  |-> "throw", error |-> "DdevCommandError",
                      text  |-> run.text,
                      trace |-> checked \o db.trace \o run.trace] :
                run \in {execDDEVCommand(
                             dbQueryCommand(query, database, db.type),
                             projectName, env.pathOk, env.execOk)}}) :
          db \in {getDatabaseType(projectName, env.describe)}})

\* dbQuery validating in read-only mode whatever allowWriteOperations is.
dbQueryWriteModeDropped(query, allowWriteOperations, database, projectName, env) ==
    Only({IF ~security.allowed
          THEN [kind  |-> "throw", error |-> "Error",
                text  |-> "Query not allowed: " \o security.reason,
                trace |-> <<Invoked("validateQuerySecurity", query, "", FALSE)>>]
          ELSE dbQueryExecute(query, allowWriteOperations, database,
                   projectName, env,
                   <<Invoked("validateQuerySecurity", query, "", TRUE)>>) :
          security \in {validateQuerySecurity(query, FALSE)}})

\* dbQuery executing the query whatever the security check answered.
dbQueryIgnoringSecurity(query, allowWriteOperations, database, projectName, env) ==
    dbQueryExecute(query, allowWriteOperations, database, projectName, env,
        <<Invoked("validateQuerySecurity", query, "",
                  validateQuerySecurity(query, allowWriteOperations).allowed)>>)

\* dbQuery(query, allowWriteOperations, database, projectName):
\* [kind, error, text, trace]; kind is "return" or "throw".  The mode
\* indicator is written without its emoji.
dbQuery(query, allowWriteOperations, database, projectName, env) ==
    Only({IF ~security.allowed
          THEN [kind  |-> "throw", error |-> "Error",
                text  |-> "Query not allowed: " \o security.reason,
                trace |-> <<Invoked("validateQuerySecurity", query, "", FALSE)>>]
          ELSE dbQueryExecute(query, allowWriteOperations, database,
                   projectName, env,
                   <<Invoked("validateQuerySecurity", query, "", TRUE)>>) :
          security \in {validateQuerySecurity(query, allowWriteOperations)}})

(***************************************************************************)
(* mcp-helpers.ts and the tool handlers of tools/*.ts.  A handler's        *)
(* outcome is [kind, error, code, isError, text, trace]: kind "return"     *)
(* with the response text, or kind "throw" with the class of the thrown    *)
(* value ("ErrorResponse" is the plain object of createErrorResponse).     *)
(***************************************************************************)
createToolResponse(text, trace) ==
    [kind |-> "return", error |-> "", code |-> "", isError |-> FALSE,
     text |-> text, trace |-> trace]

\* throw createErrorResponse(message, true)
throwErrorResponse(message, trace) ==
    [kind |-> "throw", error |-> "ErrorResponse", code |-> "",
     isError |-> TRUE, text |-> message, trace |-> trace]

throwMcpError(code, message, trace) ==
    [kind |-> "throw", error |-> "McpError", code |-> code,
     isError |-> FALSE, text |-> message, trace |-> trace]

\* handleToolError(error) for a caught error of class error, message text.
handleToolError(error, text, trace) ==
    IF error = "DdevCommandError"
    THEN throwErrorResponse("DDEV command failed:\n\n" \o text, trace)
    ELSE throwErrorResponse("Tool execution failed: " \o text, trace)

\* serverConfig.allowWriteOperations ?? false
allowWriteOrDefault(serverConfig) ==
    IF serverConfig.allowWriteOperations = {} THEN FALSE
    ELSE TRUE \in serverConfig.allowWriteOperations

ddev_db_query(args, serverConfig, env) ==
    Only({IF run.kind = "return" THEN createToolResponse(run.text, run.trace)
          ELSE handleToolError(run.error, run.text, run.trace) :
          run \in {dbQuery(args.query, allowWriteOrDefault(serverConfig),
                           args.database, args.project_name, env)}})

ddev_exec_command(args, serverConfig, env) ==
    Only({IF run.ok
          THEN createToolResponse(
                   "Command executed successfully:\n\n" \o run.text, run.trace)
          ELSE handleToolError("DdevCommandError", run.text, run.trace) :
          run \in {execDDEVCommand("exec \"" \o args.command \o "\"",
                                   args.project_name, env.pathOk, env.execOk)}})

jsonSupportedCommands ==
    {"show", "info", "list", "outdated", "depends", "why", "why-not", "status"}

\* The command ddev_composer_command passes to `ddev composer`.
composerCmd(command) ==
    IF /\ commandBase(command) \in jsonSupportedCommands
       /\ ~Includes(command, "--format=")
    THEN command \o " --format=json" ELSE command

\* env.json: whether the command's output parses as JSON.
ddev_composer_command(args, serverConfig, env) ==
    Only({IF ~run.ok
          THEN handleToolError("DdevCommandError", run.text, run.trace)
          ELSE IF env.json
          THEN createToolResponse(
                   "Composer command executed successfully (JSON):\n\n"
                       \o run.text, run.trace)
          ELSE createToolResponse(
                   "Composer command executed successfully:\n\n" \o run.text,
                   run.trace) :
          run \in {execDDEVCommand("composer " \o composerCmd(args.command),
                                   args.project_name, env.pathOk, env.execOk)}})

\* The ddev_list_projects handler without its single-project guard.
ddev_list_projectsUnguarded(args, serverConfig, env) ==
    Only({createToolResponse(
              IF run.projects = 0 THEN "Found 0 DDEV projects:\n\n"
              ELSE "Found 2 DDEV projects:\n\n" \o CommandOutput,
              run.trace) :
          run \in {listProjects(env.execOk)}})

ddev_list_projects(args, serverConfig, env) ==
    IF serverConfig.defaultProjectName # ""
    THEN throwMcpError("MethodNotFound",
             "ddev_list_projects is not available in single project mode for security reasons",
             <<>>)
    ELSE Only({createToolResponse(
                   IF run.projects = 0 THEN "Found 0 DDEV projects:\n\n"
                   ELSE "Found 2 DDEV projects:\n\n" \o CommandOutput,
                   run.trace) :
               run \in {listProjects(env.execOk)}})

ddev_project_status(args, serverConfig, env) ==
    Only({IF ~run.found
          THEN createToolResponse(
                   "DDEV project not found: "
                       \o (IF args.project_name # "" THEN args.project_name
                           ELSE "current"),
                   run.trace)
          ELSE createToolResponse("DDEV Project Status:\n\n" \o CommandOutput,
                                  run.trace) :
          run \in {getProjectStatus(args.project_name, env.describe)}})

\* tools/index.ts: the tools in registration order.
tools ==
    <<"ddev_composer_command", "ddev_db_query", "ddev_exec_command",
      "ddev_list_projects", "ddev_project_status">>

ToolNames == {tools[n] : n \in DOMAIN tools}

\* tool.handler(args, config)
handler(name, args, serverConfig, env) ==
    Only({[run EXCEPT !.trace =
               <<Invoked("handler", name, args.project_name,
                         run.kind = "return")>> \o run.trace] :
          run \in {CASE name = "ddev_composer_command" ->
                            ddev_composer_command(args, serverConfig, env)
                     [] name = "ddev_db_query" ->
                            ddev_db_query(args, serverConfig, env)
                     [] name = "ddev_exec_command" ->
                            ddev_exec_command(args, serverConfig, env)
                     [] name = "ddev_list_projects" ->
                            ddev_list_projects(args, serverConfig, env)
                     [] name = "ddev_project_status" ->
                            ddev_project_status(args, serverConfig, env)}})

(***************************************************************************)
(* ddev-mcp-server.ts                                                      *)
(***************************************************************************)

\* new DDEVMCPServer(): config = {}
EmptyConfig ==
    [defaultProjectName |-> "", allowWriteOperations |-> {},
     allowedCommands |-> {}]

\* resolveProjectName replacing every requested project by the configured
\* one without denying any.
resolveProjectNameLenient(cfg, projectName) ==
    IF cfg.defaultProjectName # ""
    THEN [denied |-> FALSE, name |-> cfg.defaultProjectName]
    ELSE [denied |-> FALSE, name |-> projectName]

\* resolveProjectName: [denied, name]
resolveProjectName(cfg, projectName) ==
    IF cfg.defaultProjectName # ""
    THEN IF projectName # "" /\ projectName # cfg.defaultProjectName
         THEN [denied |-> TRUE, name |-> projectName]
         ELSE [denied |-> FALSE, name |-> cfg.defaultProjectName]
    ELSE [denied |-> FALSE, name |-> projectName]

\* The elements of sequence xs that satisfy keep, in order.
RECURSIVE FilterSeq(_, _)
FilterSeq(xs, keep) ==
    IF xs = <<>> THEN <<>>
    ELSE (IF Head(xs) \in keep THEN <<Head(xs)>> ELSE <<>>)
             \o FilterSeq(Tail(xs), keep)

SeqElements(xs) == {xs[n] : n \in DOMAIN xs}

\* The ListTools request handler: the names of the tools it returns.
listTools(cfg) ==
    LET single   == IF cfg.defaultProjectName # ""
                    THEN FilterSeq(tools, ToolNames \ {"ddev_list_projects"})
                    ELSE tools
        filtered == IF \E ac \in cfg.allowedCommands : Len(ac) > 0
                    THEN FilterSeq(single,
                             UNION {SeqElements(ac) : ac \in cfg.allowedCommands})
                    ELSE single
    IN  filtered

\* The CallTool request handler resolving the project before it consults
\* the allowed commands.
callToolResolvingFirst(cfg, name, args, env) ==
    IF name \notin ToolNames
    THEN throwMcpError("MethodNotFound", "Unknown tool: " \o name, <<>>)
    ELSE IF resolveProjectName(cfg, args.project_name).denied
    THEN throwMcpError("InvalidRequest",
             "Access denied: Project '" \o args.project_name
                 \o "' is not the configured single project",
             <<>>)
    ELSE IF \E ac \in cfg.allowedCommands : name \notin SeqElements(ac)
    THEN throwMcpError("MethodNotFound",
             "Command '" \o name \o "' is not in the allowed commands whitelist",
             <<>>)
    ELSE Only({IF run.kind = "return" \/ run.error = "McpError" THEN run
               ELSE throwMcpError("InternalError",
                        "Tool execution failed: "
                            \o (IF run.error = "ErrorResponse"
                                THEN "[object Object]" ELSE run.text),
                        run.trace) :
               run \in {handler(name,
                            [args EXCEPT !.project_name =
                                 resolveProjectName(cfg, args.project_name).name],
                            cfg, env)}})

\* The CallTool request handler.
callTool(cfg, name, args, env) ==
    IF name \notin ToolNames
    THEN throwMcpError("MethodNotFound", "Unknown tool: " \o name, <<>>)
    ELSE IF \E ac \in cfg.allowedCommands : name \notin SeqElements(ac)
    THEN throwMcpError("MethodNotFound",
             "Command '" \o name \o "' is not in the allowed commands whitelist",
             <<>>)
    ELSE IF resolveProjectName(cfg, args.project_name).denied
    THEN throwMcpError("InvalidRequest",
             "Access denied: Project '" \o args.project_name
                 \o "' is not the configured single project",
             <<>>)
    ELSE Only({IF run.kind = "return" \/ run.error = "McpError" THEN run
               ELSE throwMcpError("InternalError",
                        "Tool execution failed: "
                            \o (IF run.error = "ErrorResponse"
                                THEN "[object Object]" ELSE run.text),
                        run.trace) :
               run \in {handler(name,
                            [args EXCEPT !.project_name =
                                 resolveProjectName(cfg, args.project_name).name],
                            cfg, env)}})

(***************************************************************************)
(* Inputs.  A query text is the concatenation of at most MaxFrags          *)
(* fragments; the fragments hold statements, keywords separated by a line  *)
(* break or by a comment, comments, a meta-command and padding.            *)
(***************************************************************************)
MaxFrags == 2

BlockComments == {"/* ; */", "/* KILL */", "/*!\nx*/"}

LineComments == {"-- ;\n"}

Fragments ==
    {"SELECT 1", "select 2; ", "DROP\n", "DROP/**/", "DATABASE x", "TABLE t",
     "DELETE FROM t", "SHUTDOWN", "SHOW GRANTS",
     "WITH x AS (DELETE FROM t RETURNING *) ", "WITH x AS (SELECT 1) ",
     "COPY t FROM PROGRAM 'c'", "\\dt", " "}
        \cup BlockComments \cup LineComments

FragSeqs == UNION {[1..n -> Fragments] : n \in 0..MaxFrags}

\* The psql meta-commands of the whitelist that take no argument.
MetaCommands ==
    {"\\dt", "\\l", "\\dn", "\\df", "\\dv", "\\di", "\\du", "\\dp", "\\z"}

\* Names of objects \d is asked to describe.
DescribedObjects == {"users", "skill"}

\* The meta-commands as submitted: as they are, in upper case, and with
\* whitespace around them.
MetaCommandInputs ==
    UNION {{m, toUpperCase(m), " \t" \o m \o "\n"} :
           m \in MetaCommands
                    \cup {"\\d " \o object : object \in DescribedObjects}
                    \cup {"\\d \t users"}}

\* The texts validateQuerySecurity is called with, in fragments.
QueryParts == FragSeqs \cup {<<m>> : m \in MetaCommandInputs}

RECURSIVE Join(_)
Join(parts) == IF parts = <<>> THEN "" ELSE Head(parts) \o Join(Tail(parts))

\* The queries the tools and dbQuery are called with: a whitelisted
\* statement, one with a double quote, a write, a stacked submission, a
\* catastrophic statement and a common table expression that deletes.
ToolQueries ==
    {"SELECT 1", "SELECT \"a\"", "DELETE FROM t", "select 2; DELETE FROM t",
     "SHUTDOWN", "WITH x AS (DELETE FROM t RETURNING *) SELECT 1"}

\* The commands ddev_exec_command is called with.
ExecCommands == {"ls -la", "mysql -e 'DELETE FROM t'"}

\* The commands ddev_composer_command is called with.
ComposerCommands == {"show", "install", "show --format=text"}

ProjectNames == {"", "shop", "blog"}

Databases == {"", "db"}

\* The allowedCommands lists a server is constructed with: the empty list
\* (which the constructor accepts, though index.ts never builds it) and a
\* list of two tools.
AllowedCommandsLists ==
    {<<>>, <<"ddev_db_query", "ddev_list_projects">>}

\* The configurations index.ts and callers of the constructor give the
\* server.
Configs ==
    [defaultProjectName : {"", "shop"},
     allowWriteOperations : {{}, {FALSE}, {TRUE}},
     allowedCommands : {{}} \cup {{ac} : ac \in AllowedCommandsLists}]

\* The arguments of a CallTool request for tool name.
ToolArgs(name) ==
    [query : IF name = "ddev_db_query" THEN ToolQueries ELSE {""},
     database : IF name = "ddev_db_query" THEN Databases ELSE {""},
     command : CASE name = "ddev_exec_command" -> ExecCommands
                 [] name = "ddev_composer_command" -> ComposerCommands
                 [] OTHER -> {""},
     project_name : ProjectNames]

\* What the environment can answer during a call of tool name: only the
\* processes the tool starts are left open.
ToolEnvs(name) ==
    [describe : IF name \in {"ddev_db_query", "ddev_project_status"}
                THEN DescribeOutcomes ELSE {"fail"},
     pathOk : IF name \in {"ddev_db_query", "ddev_exec_command"}
              THEN BOOLEAN ELSE {TRUE},
     execOk : IF name \in {"ddev_project_status"} THEN {TRUE} ELSE BOOLEAN,
     json : IF name = "ddev_composer_command" THEN BOOLEAN ELSE {FALSE}]

(***************************************************************************)
(* The state machine.  The exported functions of database-service.ts are   *)
(* called directly (as the test suites do) before a server is started;     *)
(* they read no server state.  Once index.ts has constructed the server,   *)
(* requests arrive through ListTools and CallTool.  Every call runs to     *)
(* completion; Return hands its outcome to the caller.                     *)
(***************************************************************************)
VARIABLES
    started,  \* whether the DDEVMCPServer has been constructed
    config,   \* this.config
    phase,    \* "idle", or "done" when a call's outcome is pending
    call,     \* the call being answered
    outcome,  \* what the call returned or threw
    trace     \* the functions the call invoked, in order

vars == <<started, config, phase, call, outcome, trace>>

NoCall == [op |-> "none"]
NoOutcome == [kind |-> "none"]

Init ==
    /\ started = FALSE
    /\ config = EmptyConfig
    /\ phase = "idle"
    /\ call = NoCall
    /\ outcome = NoOutcome
    /\ trace = <<>>

\* index.ts main(): new DDEVMCPServer(config), server.run()
Start ==
    /\ ~started /\ phase = "idle"
    /\ \E cfg \in Configs : config' = cfg
    /\ started' = TRUE
    /\ UNCHANGED <<phase, call, outcome, trace>>

\* validateQuerySecurity(query, allowWriteOperations); given is FALSE when
\* the caller passes null for the query.
ValidateQuerySecurity ==
    /\ ~started /\ phase = "idle"
    /\ \E parts \in QueryParts, given \in BOOLEAN,
          allowWriteOperations \in BOOLEAN :
         /\ given \/ parts = <<>>
         /\ \E query \in {Join(parts)} :
              \E result \in {validateQuerySecurityCall(
                                 IF given THEN {query} ELSE Null,
                                 allowWriteOperations)} :
                /\ call' = [op |-> "validateQuerySecurity", query |-> query,
                            parts |-> parts, given |-> given,
                            allowWriteOperations |-> allowWriteOperations]
                /\ outcome' = result
                /\ trace' = <<Invoked("validateQuerySecurity", query, "",
                                "allowed" \in DOMAIN result /\ result.allowed)>>
    /\ phase' = "done"
    /\ UNCHANGED <<started, config>>

\* dbQuery(query, allowWriteOperations, database, projectName)
DbQuery ==
    /\ ~started /\ phase = "idle"
    /\ \E query \in ToolQueries, allowWriteOperations \in BOOLEAN,
          database \in Databases, projectName \in ProjectNames \ {"blog"},
          env \in ToolEnvs("ddev_db_query") :
         \E run \in {dbQuery(query, allowWriteOperations, database,
                              projectName, env)} :
             /\ call' = [op |-> "dbQuery", query |-> query,
                         allowWriteOperations |-> allowWriteOperations,
                         database |-> database, projectName |-> projectName]
             /\ outcome' = [kind |-> run.kind, error |-> run.error,
                            text |-> run.text]
             /\ trace' = run.trace
    /\ phase' = "done"
    /\ UNCHANGED <<started, config>>

\* A ListTools request.
ListTools ==
    /\ started /\ phase = "idle"
    /\ call' = [op |-> "ListTools"]
    /\ outcome' = [kind |-> "return", tools |-> listTools(config)]
    /\ trace' = <<>>
    /\ phase' = "done"
    /\ UNCHANGED <<started, config>>

\* A CallTool request.
CallTool ==
    /\ started /\ phase = "idle"
    /\ \E name \in ToolNames \cup {"ddev_unknown"} :
         \E args \in ToolArgs(name), env \in ToolEnvs(name) :
           \E run \in {callTool(config, name, args, env)} :
               /\ call' = [op |-> "CallTool", name |-> name, args |-> args]
               /\ outcome' = [kind |-> run.kind, error |-> run.error,
                              code |-> run.code, isError |-> run.isError,
                              text |-> run.text]
               /\ trace' = run.trace
    /\ phase' = "done"
    /\ UNCHANGED <<started, config>>

\* The caller takes the outcome; the server is ready for the next call.
Return ==
    /\ phase = "done"
    /\ phase' = "idle"
    /\ call' = NoCall
    /\ outcome' = NoOutcome
    /\ trace' = <<>>
    /\ UNCHANGED <<started, config>>

Next ==
    \/ Start
    \/ ValidateQuerySecurity
    \/ DbQuery
    \/ ListTools
    \/ CallTool
    \/ Return

Spec == Init /\ [][Next]_vars

(***************************************************************************)
(* Properties of the classifier.  They are read in the state a call of     *)
(* validateQuerySecurity leaves: call holds its arguments, outcome its     *)
(* result.  Classified is such a state for a string argument.              *)
(***************************************************************************)
Classified ==
    phase = "done" /\ call.op = "validateQuerySecurity" /\ call.given

\* The text validateQuerySecurity tests the catastrophic patterns on.
RawCatastrophic == matchesCatastrophic(toUpperCase(trim(call.query)))

\* The catastrophic patterns on the normalized statement.
NormalizedCatastrophic == matchesCatastrophic(normalizedQuery(call.query))

\* The normalized statement splits into two or more non-empty parts.
Stacked == Len(splitStatements(normalizedQuery(call.query), 1)) >= 2

\* The normalized statement begins with one of words, as a whole word.
NormalizedBeginsWith(words) ==
    test(<<Bol, OneOf(words), WB>>, normalizedQuery(call.query))

\* C1: a query whose text matches a catastrophic pattern is denied with a
\* reason containing "catastrophic", with allowWriteOperations false and
\* with allowWriteOperations true.
C1_CatastrophicDeniedInBothModes ==
    (Classified /\ RawCatastrophic)
        => /\ outcome.allowed = FALSE
           /\ Includes(outcome.reason, "catastrophic")

C1_Witness ==
    /\ Classified
    /\ call.allowWriteOperations
    /\ RawCatastrophic
    /\ outcome.allowed = FALSE

\* C2 as stated: a query of two or more non-empty sub-statements is denied
\* with allowWriteOperations false and with allowWriteOperations true.
C2_StackedDeniedInBothModes ==
    (Classified /\ Stacked) => outcome.allowed = FALSE

\* C2 amended: a query of two or more non-empty sub-statements is denied
\* when allowWriteOperations is false, whatever its sub-statements are; when
\* allowWriteOperations is true it is denied exactly if its text matches a
\* catastrophic pattern.
C2_StackedDeniedInReadOnlyMode ==
    (Classified /\ Stacked)
        => outcome.allowed = (call.allowWriteOperations /\ ~RawCatastrophic)

C2_Witness ==
    /\ Classified
    /\ call.query = "select 2; SELECT 1"
    /\ ~call.allowWriteOperations
    /\ outcome.allowed = FALSE
    /\ outcome.reason = WhitelistReason

\* C3: every query whose normalized form (comments replaced by a space,
\* whitespace collapsed, trimmed, upper-cased) matches a catastrophic
\* pattern is denied as catastrophic in both write modes.
C3_CatastrophicOnNormalizedStatement ==
    (Classified /\ NormalizedCatastrophic)
        => /\ outcome.allowed = FALSE
           /\ outcome.reason = CatastrophicReason

\* C4: with write mode disabled, a statement beginning with WITH is allowed
\* only if no keyword of the deny vocabulary occurs as a whole word
\* anywhere in it.
C4_CteWithWriteDenied ==
    (/\ Classified
     /\ ~call.allowWriteOperations
     /\ NormalizedBeginsWith({"WITH"})
     /\ outcome.allowed)
        => ~test(<<WB, OneOf(CteDenyVocabulary), WB>>,
                 normalizedQuery(call.query))

WriteKeywords ==
    {"INSERT", "UPDATE", "DELETE", "CREATE", "ALTER", "DROP", "TRUNCATE"}

\* The case of C5: one statement beginning with a write keyword that matches
\* no catastrophic pattern, neither as submitted nor normalized.
C5_Case ==
    /\ Classified
    /\ ~Stacked
    /\ NormalizedBeginsWith(WriteKeywords)
    /\ ~RawCatastrophic
    /\ ~NormalizedCatastrophic

\* C5: a single statement that begins with INSERT, UPDATE, DELETE, CREATE,
\* ALTER, DROP or TRUNCATE and matches no catastrophic pattern is denied
\* when allowWriteOperations is false and allowed when it is true.
C5_WriteStatementFollowsWriteMode ==
    C5_Case => outcome.allowed = call.allowWriteOperations

C5_Witness ==
    /\ C5_Case
    /\ call.allowWriteOperations
    /\ outcome.allowed

SafeKeywords == {"SELECT", "SHOW", "DESCRIBE", "DESC", "EXPLAIN", "WITH"}

\* The normalized statement is empty or begins with a keyword of the
\* whitelist or with a backslash.
SafeBeginning ==
    \/ normalizedQuery(call.query) = ""
    \/ NormalizedBeginsWith(SafeKeywords)
    \/ StartsAt(normalizedQuery(call.query), "\\", 1)

\* C6 as stated: with allowWriteOperations false every allowed query is
\* empty or begins with SELECT, SHOW, DESCRIBE, DESC, EXPLAIN, WITH or a
\* backslash, and every other statement is denied with the whitelist reason.
C6_DefaultDenyWhitelistReason ==
    (Classified /\ ~call.allowWriteOperations /\ ~SafeBeginning)
        => /\ outcome.allowed = FALSE
           /\ outcome.reason = WhitelistReason

\* C6 amended: with allowWriteOperations false every allowed query is empty
\* or begins with SELECT, SHOW, DESCRIBE, DESC, EXPLAIN, WITH or a
\* backslash, and every other statement is denied: with the catastrophic
\* reason if its text matches a catastrophic pattern, with the whitelist
\* reason otherwise.
C6_DefaultDeny ==
    (Classified /\ ~call.allowWriteOperations /\ ~SafeBeginning)
        => /\ outcome.allowed = FALSE
           /\ outcome.reason = IF RawCatastrophic THEN CatastrophicReason
                               ELSE WhitelistReason

C6_Witness ==
    /\ Classified
    /\ ~call.allowWriteOperations
    /\ ~SafeBeginning
    /\ ~RawCatastrophic
    /\ outcome.allowed = FALSE
    /\ outcome.reason = WhitelistReason

\* The functions a call has invoked.
InvokedFunctions == {trace[i].fn : i \in DOMAIN trace}

\* C7: in every call of dbQuery validateQuerySecurity runs first; when its
\* result is not allowed dbQuery throws an Error with the message
\* "Query not allowed: " followed by the reason, and invokes neither
\* getDatabaseType nor execDDEVCommand.
C7_DbQueryValidatesBeforeExecuting ==
    (phase = "done" /\ call.op = "dbQuery")
        => /\ Len(trace) >= 1
           /\ trace[1].fn = "validateQuerySecurity"
           /\ trace[1].arg = call.query
           /\ \A security \in {validateQuerySecurity(call.query,
                                   call.allowWriteOperations)} :
                ~security.allowed
                    => /\ outcome.kind = "throw"
                       /\ outcome.error = "Error"
                       /\ outcome.text = "Query not allowed: " \o security.reason
                       /\ "getDatabaseType" \notin InvokedFunctions
                       /\ "execDDEVCommand" \notin InvokedFunctions

C7_Witness ==
    /\ phase = "done"
    /\ call.op = "dbQuery"
    /\ call.query = "DELETE FROM t"
    /\ ~call.allowWriteOperations
    /\ outcome.kind = "throw"
    /\ outcome.text = "Query not allowed: " \o WhitelistReason
    /\ InvokedFunctions = {"validateQuerySecurity"}

\* The command starts a database client with SQL on its command line.
RunsDatabaseClient(command) ==
    \E client \in {"mysql", "psql"}, flag \in {" -e ", " -c "} :
        Includes(command, client) /\ Includes(command, flag)

\* C8: with write mode disabled no tool call has execDDEVCommand run a
\* database-client command to completion unless validateQuerySecurity has classified the
\* SQL of that command allowed earlier in the call.
C8_ClassifierIsTheOnlyPathToTheDatabase ==
    (phase = "done" /\ call.op = "CallTool" /\ ~allowWriteOrDefault(config))
        => \A i \in DOMAIN trace :
               (/\ trace[i].fn = "execDDEVCommand"
                /\ trace[i].ok
                /\ RunsDatabaseClient(trace[i].arg))
                   => \E j \in 1..(i - 1) :
                          /\ trace[j].fn = "validateQuerySecurity"
                          /\ trace[j].ok
                          /\ Includes(trace[i].arg,
                                      escapeQuotes(trace[j].arg, 1))

\* The case of C9: one statement whose normalized form begins with SELECT
\* and that matches no catastrophic pattern, neither as submitted nor
\* normalized.
C9_Case ==
    /\ Classified
    /\ ~Stacked
    /\ NormalizedBeginsWith({"SELECT"})
    /\ ~RawCatastrophic
    /\ ~NormalizedCatastrophic

\* C9: a single statement whose normalized form begins with SELECT and that
\* matches no catastrophic pattern is allowed, with allowWriteOperations
\* false and with allowWriteOperations true.
C9_SelectAllowed ==
    C9_Case => outcome.allowed = TRUE

C9_Witness ==
    /\ C9_Case
    /\ ~call.allowWriteOperations
    /\ call.parts = <<"-- ;\n", "SELECT 1">>
    /\ outcome.allowed

\* The positions of call.parts that hold a comment.
CommentPositions ==
    {i \in DOMAIN call.parts : call.parts[i] \in BlockComments \cup LineComments}

\* The query with the comment at position i replaced by text c.
WithComment(i, c) == Join([call.parts EXCEPT ![i] = c])

\* The comments a comment can be replaced by: those of its kind.
OtherComments(c) ==
    IF c \in BlockComments THEN BlockComments ELSE LineComments

CommentFree(query) == ~Includes(query, "/*") /\ ~Includes(query, "--")

\* s with every occurrence of the character from replaced by to.
ReplaceChar(s, from, to) ==
    ConcatChars([k \in 1..Len(s) |->
                    IF SubSeq(s, k, k) = from THEN to ELSE SubSeq(s, k, k)],
                1, Len(s))

\* Queries that differ from query only in letter case, in leading and
\* trailing whitespace, or in the kind and length of the whitespace runs
\* between its tokens.
CaseAndWhitespaceVariants(query) ==
    {toUpperCase(query),
     " \n" \o query \o "\t ",
     ReplaceChar(query, " ", "\n"),
     ReplaceChar(query, " ", " \t "),
     ReplaceChar(query, "\n", " ")}

\* C11: two queries that differ only in letter case, in leading or
\* trailing whitespace, or in the length and kind of the whitespace runs
\* between tokens receive the same validateQuerySecurity result in each
\* write mode.
C11_CaseAndWhitespaceInsensitive ==
    (Classified /\ CommentFree(call.query))
        => \A variant \in CaseAndWhitespaceVariants(call.query) :
               validateQuerySecurity(variant, call.allowWriteOperations)
                   = outcome

\* C12 as stated: every input that normalizes to the empty string (empty,
\* whitespace only, comments only, whatever the comment text) is allowed
\* with allowWriteOperations false.
C12_EmptyInputAllowed ==
    (Classified /\ ~call.allowWriteOperations
        /\ normalizedQuery(call.query) = "")
        => outcome.allowed

\* C12 amended: every input that normalizes to the empty string and whose
\* text, comments included, matches no catastrophic pattern is allowed with
\* allowWriteOperations false.
C12_EmptyInputAllowedUnlessCatastrophic ==
    (Classified /\ ~call.allowWriteOperations
        /\ normalizedQuery(call.query) = "" /\ ~RawCatastrophic)
        => outcome.allowed

C12_Witness ==
    /\ Classified
    /\ ~call.allowWriteOperations
    /\ call.parts = <<"-- ;\n", "/* ; */">>
    /\ normalizedQuery(call.query) = ""
    /\ outcome.allowed

\* C13 as stated: for every query input, a null value included,
\* validateQuerySecurity returns a classification and never throws.
C13_ValidateNeverThrows ==
    (phase = "done" /\ call.op = "validateQuerySecurity")
        => "allowed" \in DOMAIN outcome

\* C13 amended: for every string input, the empty string, whitespace and
\* arbitrary text included, validateQuerySecurity returns a classification
\* (allowed, with a reason when not allowed) and does not throw.
C13_ValidateTotalOnStrings ==
    Classified
        => /\ "threw" \notin DOMAIN outcome
           /\ "allowed" \in DOMAIN outcome
           /\ outcome.allowed \in BOOLEAN
           /\ ~outcome.allowed => "reason" \in DOMAIN outcome

C13_Witness ==
    /\ Classified
    /\ call.query = ""
    /\ "allowed" \in DOMAIN outcome
    /\ outcome.allowed

\* C14: every result with allowed=false carries a reason that contains
\* exactly one of "catastrophic" (when the text matches a catastrophic
\* pattern) and "whitelist" (otherwise); every result with allowed=true
\* carries no reason.
C14_ReasonNamesTheKindOfDenial ==
    Classified
        => IF outcome.allowed THEN "reason" \notin DOMAIN outcome
           ELSE /\ Includes(outcome.reason, "catastrophic") = RawCatastrophic
                /\ Includes(outcome.reason, "whitelist") = ~RawCatastrophic

C14_Witness ==
    /\ Classified
    /\ ~outcome.allowed
    /\ Includes(outcome.reason, "whitelist")
    /\ ~Includes(outcome.reason, "catastrophic")

\* The reason names the allowed keyword set and says that write mode can
\* be enabled.
NamesKeywordsAndWriteMode(reason) ==
    /\ \A keyword \in {"SELECT", "SHOW", "DESCRIBE", "EXPLAIN"} :
           Includes(reason, keyword)
    /\ Includes(reason, "--allow-write")

\* C15: the reason of an ordinary denial names the allowed keywords and
\* says that write mode can be enabled, and the same query is allowed with
\* allowWriteOperations true; the reason of a catastrophic denial does not
\* mention write mode, and the query is denied in both write modes.
C15_ReasonSuggestsWriteModeOnlyWhenItHelps ==
    (Classified /\ ~outcome.allowed)
        => IF Includes(outcome.reason, "whitelist")
           THEN /\ NamesKeywordsAndWriteMode(outcome.reason)
                /\ validateQuerySecurity(call.query, TRUE).allowed
           ELSE /\ ~Includes(outcome.reason, "write")
                /\ \A mode \in BOOLEAN :
                       ~validateQuerySecurity(call.query, mode).allowed

C15_Witness ==
    /\ Classified
    /\ call.query = "DELETE FROM t"
    /\ ~outcome.allowed
    /\ NamesKeywordsAndWriteMode(outcome.reason)
    /\ validateQuerySecurity(call.query, TRUE).allowed

\* C16: normalization is idempotent: normalizing the normalized statement
\* of a query gives that statement again.
C16_NormalizationIdempotent ==
    Classified
        => normalizedQuery(normalizedQuery(call.query))
               = normalizedQuery(call.query)

C16_Witness ==
    /\ Classified
    /\ call.parts = <<"select 2; ", "/* ; */">>
    /\ normalizedQuery(call.query) = "SELECT 2;"
    /\ normalizedQuery("SELECT 2;") = "SELECT 2;"

\* The call submits one meta-command of the introspection family.
MetaCommandSubmitted ==
    Classified /\ Len(call.parts) = 1 /\ call.parts[1] \in MetaCommandInputs

\* C17 as stated: each backslash meta-command of the introspection family
\* (\dt, \l, \dn, \df, \dv, \di, \du, \dp, \z, and \d with one object
\* name), in any letter case and with surrounding whitespace, is allowed
\* with allowWriteOperations false.
C17_MetaCommandsAllowed ==
    (MetaCommandSubmitted /\ ~call.allowWriteOperations) => outcome.allowed

\* C17 amended: each such meta-command whose text matches no catastrophic
\* pattern is allowed with allowWriteOperations false.
C17_MetaCommandsAllowedUnlessCatastrophic ==
    (MetaCommandSubmitted /\ ~call.allowWriteOperations /\ ~RawCatastrophic)
        => outcome.allowed

C17_Witness ==
    /\ MetaCommandSubmitted
    /\ ~call.allowWriteOperations
    /\ call.query = " \t\\d users\n"
    /\ outcome.allowed

\* The query contains a MySQL executable comment: "/*!" with a "*/" after it.
ContainsExecutableComment(query) ==
    \E i \in 1..Len(query) :
        StartsAt(query, "/*!", i) /\ IndexOfFrom(query, "*/", i + 3) # 0

\* C18: every query that contains an executable comment /*! ... */ is
\* denied in both write modes, on one line or across several lines.
C18_ExecutableCommentDenied ==
    (Classified /\ ContainsExecutableComment(call.query))
        => ~outcome.allowed

\* The case of C19: write mode, several statements in one submission, no
\* catastrophic pattern matched, neither as submitted nor normalized.
C19_Case ==
    /\ phase = "done"
    /\ call.op \in {"validateQuerySecurity", "dbQuery"}
    /\ call.op = "validateQuerySecurity" => call.given
    /\ call.allowWriteOperations
    /\ Stacked
    /\ ~RawCatastrophic
    /\ ~NormalizedCatastrophic

\* C19: with allowWriteOperations true a submission of several
\* ';'-separated statements that matches no catastrophic pattern is allowed
\* by validateQuerySecurity, and dbQuery passes it to execDDEVCommand in a
\* database-client command.
C19_StackedWritesRunInWriteMode ==
    C19_Case
        => IF call.op = "validateQuerySecurity" THEN outcome.allowed
           ELSE \E i \in DOMAIN trace :
                    /\ trace[i].fn = "execDDEVCommand"
                    /\ RunsDatabaseClient(trace[i].arg)
                    /\ Includes(trace[i].arg, escapeQuotes(call.query, 1))

C19_Witness ==
    /\ C19_Case
    /\ call.op = "dbQuery"
    /\ call.query = "select 2; DELETE FROM t"
    /\ outcome.kind = "return"
    /\ "execDDEVCommand" \in InvokedFunctions

\* A ddev_db_query request served by a server whose configuration leaves
\* allowWriteOperations unset.
C20_Case ==
    /\ phase = "done"
    /\ call.op = "CallTool"
    /\ call.name = "ddev_db_query"
    /\ config.allowWriteOperations = {}

\* A data-modifying keyword occurs as a whole word in the normalized query.
DataModifying(query) ==
    test(<<WB, OneOf(WriteKeywords), WB>>, normalizedQuery(query))

\* With allowWriteOperations unset, the ddev_db_query handler, when the
\* server invokes it, validates the query in read-only mode before anything
\* else and throws without executing when the query is denied.
C20_DefaultValidatesReadOnly ==
    (C20_Case /\ "handler" \in InvokedFunctions)
        => /\ Len(trace) >= 2
           /\ trace[2].fn = "validateQuerySecurity"
           /\ trace[2].arg = call.args.query
           /\ trace[2].ok = validateQuerySecurity(call.args.query, FALSE).allowed
           /\ ~trace[2].ok
                  => /\ outcome.kind = "throw"
                     /\ "execDDEVCommand" \notin InvokedFunctions

\* C20: with allowWriteOperations unset, every ddev_db_query call is
\* validated in read-only mode, and no data-modifying or otherwise
\* non-whitelisted query is given to a database client.
C20_DefaultRejectsEveryWrite ==
    /\ C20_DefaultValidatesReadOnly
    /\ (/\ C20_Case
        /\ \/ DataModifying(call.args.query)
           \/ ~isReadOnlyQuery(call.args.query))
           => \A i \in DOMAIN trace :
                  trace[i].fn = "execDDEVCommand"
                      => ~RunsDatabaseClient(trace[i].arg)

\* A CallTool request served in single-project mode.
SingleProjectCall ==
    /\ phase = "done"
    /\ call.op = "CallTool"
    /\ config.defaultProjectName # ""

\* The request names a project other than the configured one.
OtherProjectRequested ==
    call.args.project_name \notin {"", config.defaultProjectName}

\* The request is rejected as an access to another project, before the
\* tool handler.
AccessDenied ==
    /\ outcome.kind = "throw"
    /\ outcome.error = "McpError"
    /\ outcome.code = "InvalidRequest"
    /\ StartsAt(outcome.text, "Access denied", 1)
    /\ "handler" \notin InvokedFunctions

\* Every invocation of a tool handler received the configured project.
HandlerReceivedConfiguredProject ==
    \A i \in DOMAIN trace :
        trace[i].fn = "handler"
            => trace[i].project = config.defaultProjectName

\* The request passes the checks CallTool makes on the tool name before it
\* resolves the project.
ToolNameAccepted ==
    /\ call.name \in ToolNames
    /\ \A ac \in config.allowedCommands : call.name \in SeqElements(ac)

\* C21 as stated: in single-project mode every request that names another
\* project is rejected with InvalidRequest "Access denied" without the handler
\* being invoked, and otherwise the handler receives the configured project.
C21_OtherProjectAlwaysAccessDenied ==
    SingleProjectCall
        => IF OtherProjectRequested THEN AccessDenied
           ELSE HandlerReceivedConfiguredProject

\* C21: in single-project mode a request for a known tool that the allowed
\* commands admit is rejected with InvalidRequest "Access denied", the handler
\* not invoked, when it names another project; otherwise it reaches the
\* handler, which receives the configured project.  In no case is a handler
\* invoked with another project.
C21_OtherProjectAccessDenied ==
    SingleProjectCall
        => /\ HandlerReceivedConfiguredProject
           /\ ToolNameAccepted
                  => IF OtherProjectRequested THEN AccessDenied
                     ELSE "handler" \in InvokedFunctions

C21_Witness ==
    /\ SingleProjectCall
    /\ ToolNameAccepted
    /\ OtherProjectRequested
    /\ call.name = "ddev_db_query"
    /\ AccessDenied

\* A ListTools request served in single-project mode.
SingleProjectListing ==
    /\ phase = "done"
    /\ call.op = "ListTools"
    /\ config.defaultProjectName # ""

\* A CallTool request for ddev_list_projects served in single-project mode.
C22_Case ==
    /\ SingleProjectCall
    /\ call.name = "ddev_list_projects"

\* The request failed with an McpError and neither listProjects nor any
\* ddev command ran.
C22_FailedWithoutListing ==
    /\ outcome.kind = "throw"
    /\ outcome.error = "McpError"
    /\ InvokedFunctions \cap {"listProjects", "execDDEVCommand", "execSync"} = {}

\* C22 as stated: in single-project mode ddev_list_projects is in no
\* ListTools response, and every CallTool for it fails with MethodNotFound
\* without listProjects being executed.
C22_ListProjectsAlwaysMethodNotFound ==
    /\ SingleProjectListing
           => "ddev_list_projects" \notin SeqElements(outcome.tools)
    /\ C22_Case
           => /\ C22_FailedWithoutListing
              /\ outcome.code = "MethodNotFound"

\* C22: in single-project mode ddev_list_projects is in no ListTools
\* response, and every CallTool for it fails with an McpError without
\* listProjects being executed: InvalidRequest when the allowed commands
\* admit the tool and the request names another project, MethodNotFound
\* otherwise.
C22_ListProjectsDisabled ==
    /\ SingleProjectListing
           => "ddev_list_projects" \notin SeqElements(outcome.tools)
    /\ C22_Case
           => /\ C22_FailedWithoutListing
              /\ outcome.code = IF ToolNameAccepted /\ OtherProjectRequested
                                THEN "InvalidRequest" ELSE "MethodNotFound"

C22_Witness ==
    /\ C22_Case
    /\ ToolNameAccepted
    /\ ~OtherProjectRequested
    /\ "handler" \in InvokedFunctions
    /\ outcome.code = "MethodNotFound"

\* The execSync invocation i ran against project: with the project's name as
\* the last argument of the ddev command or with the project's directory as
\* working directory (the project field of an execSync entry is its cwd).
RunsAgainst(i, project) ==
    \/ trace[i].project = ProjectRoot(project)
    \/ /\ Len(trace[i].arg) > Len(project)
       /\ StartsAt(trace[i].arg, " " \o project,
                   Len(trace[i].arg) - Len(project))

\* C23: in single-project mode every ddev command that ddev_db_query,
\* ddev_exec_command, ddev_composer_command or ddev_project_status runs is
\* run against the configured project, never in the server's current
\* directory without naming the project.
C23_EveryCommandTargetsConfiguredProject ==
    (/\ SingleProjectCall
     /\ call.name \in {"ddev_db_query", "ddev_exec_command",
                       "ddev_composer_command", "ddev_project_status"})
        => \A i \in DOMAIN trace :
               trace[i].fn = "execSync"
                   => RunsAgainst(i, config.defaultProjectName)

\* The ddev command a tool ran for the caller failed: the last process the
\* handler of ddev_db_query, ddev_exec_command or ddev_composer_command
\* started is the tool's own command, and it exited with an error.
UnderlyingCommandFailed ==
    /\ phase = "done"
    /\ call.op = "CallTool"
    /\ call.name \in {"ddev_db_query", "ddev_exec_command",
                      "ddev_composer_command"}
    /\ trace # <<>>
    /\ trace[Len(trace)].fn = "execSync"
    /\ ~trace[Len(trace)].ok

\* C24: when the command a tool runs fails, what reaches the MCP caller
\* holds the stderr text of the failed command and is marked isError: true.
C24_FailureKeepsMessageAndIsError ==
    UnderlyingCommandFailed
        => /\ Includes(outcome.text, CommandStderr)
           /\ outcome.isError

\* The names the configured allowed-commands list holds.
AllowedNames == UNION {SeqElements(ac) : ac \in config.allowedCommands}

\* A CallTool request for a known tool that a configured allowed-commands
\* list does not hold.
NotAllowedCall ==
    /\ phase = "done"
    /\ call.op = "CallTool"
    /\ config.allowedCommands # {}
    /\ call.name \in ToolNames \ AllowedNames

\* The request was rejected with MethodNotFound before anything else ran.
RejectedAsNotAllowed ==
    /\ outcome.kind = "throw"
    /\ outcome.error = "McpError"
    /\ outcome.code = "MethodNotFound"
    /\ Includes(outcome.text, "is not in the allowed commands whitelist")
    /\ trace = <<>>

\* A ListTools request served by a server with a configured allowed-commands
\* list.
AllowedListing ==
    /\ phase = "done"
    /\ call.op = "ListTools"
    /\ config.allowedCommands # {}

C26_StackedReasonFirst ==
    (Classified /\ Stacked)
        => /\ outcome.allowed = FALSE
           /\ Includes(outcome.reason, "multiple statements detected")

\* C26: the catastrophic patterns are consulted before the statements are
\* counted: a submission of two or more non-empty sub-statements that matches
\* a catastrophic pattern is denied with the catastrophic reason in both
\* write modes; one that matches none is denied with the whitelist reason
\* when allowWriteOperations is false and allowed when it is true.
C26_CatastrophicBeforeStacked ==
    (Classified /\ Stacked)
        => outcome = IF RawCatastrophic
                     THEN [allowed |-> FALSE, reason |-> CatastrophicReason]
                     ELSE IF ~call.allowWriteOperations
                     THEN [allowed |-> FALSE, reason |-> WhitelistReason]
                     ELSE [allowed |-> TRUE]

C26_Witness ==
    /\ Classified
    /\ Stacked
    /\ call.parts = <<"select 2; ", "SHUTDOWN">>
    /\ ~call.allowWriteOperations
    /\ outcome = [allowed |-> FALSE, reason |-> CatastrophicReason]

\* The case of C27: allowWriteOperations false and one statement that the
\* whitelist of isReadOnlyQuery accepts and whose text matches a
\* catastrophic pattern.
C27_Case ==
    /\ Classified
    /\ ~call.allowWriteOperations
    /\ ~Stacked
    /\ isReadOnlyQuery(call.query)
    /\ RawCatastrophic

\* C27: with allowWriteOperations false a single statement that matches a
\* read-only-allow pattern and a catastrophic pattern is denied with the
\* catastrophic reason: the catastrophic patterns are consulted first.
C27_CatastrophicBeforeWhitelist ==
    C27_Case
        => outcome = [allowed |-> FALSE, reason |-> CatastrophicReason]

C27_Witness ==
    /\ C27_Case
    /\ call.query = "SHOW GRANTS"
    /\ outcome.allowed = FALSE
    /\ outcome.reason = CatastrophicReason

\* The case of C28: the query carries a comment with a ';' in it and has no
\* ';' outside its comments.
C28_Case ==
    /\ Classified
    /\ \E i \in CommentPositions : Includes(call.parts[i], ";")
    /\ \A i \in DOMAIN call.parts \ CommentPositions :
           ~Includes(call.parts[i], ";")

\* The query with each of its comments replaced by a space.
WithoutComments ==
    Join([i \in DOMAIN call.parts |->
              IF i \in CommentPositions THEN " " ELSE call.parts[i]])

\* C28: a ';' inside a block comment or a line comment separates nothing:
\* the statement has the batch count of the same statement without its
\* comments, at most 1, and when that statement is whitelisted and the text
\* matches no catastrophic pattern it is allowed in read-only mode.
C28_SemicolonInCommentIsNoSeparator ==
    C28_Case
        => /\ Len(splitStatements(normalizedQuery(call.query), 1)) <= 1
           /\ splitStatements(normalizedQuery(call.query), 1)
                  = splitStatements(normalizedQuery(WithoutComments), 1)
           /\ (/\ ~call.allowWriteOperations
               /\ ~RawCatastrophic
               /\ isReadOnlyQuery(WithoutComments))
                  => outcome.allowed

C28_Witness ==
    /\ C28_Case
    /\ call.parts = <<"SELECT 1", "/* ; */">>
    /\ ~call.allowWriteOperations
    /\ splitStatements(normalizedQuery(call.query), 1) = <<"SELECT 1">>
    /\ outcome.allowed

\* C29: write mode is monotone.  For the classified query, with readOnly
\* the result for allowWriteOperations false and writeMode the result for
\* true (one of them is the outcome of the call): readOnly allowed implies
\* writeMode allowed, and writeMode denied implies readOnly denied with the
\* same, catastrophic, reason.
C29_WriteModeMonotone ==
    Classified
        => \A other \in {validateQuerySecurity(call.query,
                             ~call.allowWriteOperations)} :
             \A readOnly \in {IF call.allowWriteOperations THEN other
                              ELSE outcome} :
               \A writeMode \in {IF call.allowWriteOperations THEN outcome
                                 ELSE other} :
                 /\ readOnly.allowed => writeMode.allowed
                 /\ ~writeMode.allowed
                        => /\ readOnly = writeMode
                           /\ writeMode.reason = CatastrophicReason

C29_Witness ==
    /\ Classified
    /\ call.allowWriteOperations
    /\ call.query = "SHUTDOWN"
    /\ outcome = [allowed |-> FALSE, reason |-> CatastrophicReason]
    /\ validateQuerySecurity(call.query, FALSE) = outcome

\* C30: under every server configuration a tool is returned by ListTools
\* exactly if a CallTool for it is not rejected with MethodNotFound.
C30_ListToolsAndCallToolAgree ==
    (phase = "done" /\ call.op = "CallTool" /\ call.name \in ToolNames)
        => (call.name \in SeqElements(listTools(config))
                <=> ~(outcome.kind = "throw" /\ outcome.code = "MethodNotFound"))

====
